---- MODULE Spec2Model ----
(***************************************************************************)
(* fastdata: an interactive terminal viewer for tabular data.              *)
(*                                                                         *)
(* The model follows src/src/tui_app.rs (one TuiApp per viewer: key        *)
(* dispatch, navigation, horizontal offset, sort, aggregation, detail      *)
(* view) and src/src/main.rs (the app_stack loop and the terminal          *)
(* session).  A state of the model is the state of the program while it    *)
(* waits in crossterm::event::poll, i.e. right after draw_ui of the top    *)
(* viewer.  Every action is one iteration of TuiApp::main_loop: the        *)
(* event is handled, main pushes or pops when main_loop returns, and the   *)
(* next draw_ui of the (new) top viewer runs.                              *)
(*                                                                         *)
(* Cells are Rust Strings, modelled as sequences of one-character          *)
(* strings; Byte gives each character its UTF-8 byte.  Row and column      *)
(* numbers in the state are 0-based as in the code; TLA+ sequences are     *)
(* 1-based, so the model indexes with +1.                                  *)
(***************************************************************************)
EXTENDS Integers, Sequences, FiniteSets, TLC

VARIABLES
    app_stack,        \* main.rs: Vec<TuiApp>, last is active
    term_width,       \* width of the terminal as f.area() reports it
    frame,            \* what the last draw_ui computed for the aggregation panel
    pc,               \* "running" | "exited" | "error" | "panicked"
    raw_mode,         \* crossterm raw mode enabled
    alt_screen,       \* alternate screen entered
    build,            \* how the binary was built (overflow checks, std's sort)
    last_event,       \* the event the last iteration of main_loop handled
    last_ret          \* how that iteration ended: "continue" | "push" | "pop" | "panic"

vars == <<app_stack, term_width, frame, pc, raw_mode, alt_screen, build,
          last_event, last_ret>>

----------------------------------------------------------------------------
(* Strings *)

\* The UTF-8 byte of each character the model's cells use.
Byte(ch) ==
    CASE ch = "0" -> 48 [] ch = "1" -> 49 [] ch = "2" -> 50 [] ch = "3" -> 51
      [] ch = "4" -> 52 [] ch = "5" -> 53 [] ch = "6" -> 54 [] ch = "7" -> 55
      [] ch = "8" -> 56 [] ch = "9" -> 57
      [] ch = "F" -> 70 [] ch = "N" -> 78 [] ch = "V" -> 86
      [] ch = "a" -> 97 [] ch = "b" -> 98 [] ch = "d" -> 100
      [] ch = "e" -> 101 [] ch = "i" -> 105 [] ch = "l" -> 108
      [] ch = "u" -> 117

IsDigit(ch) == Byte(ch) >= 48 /\ Byte(ch) <= 57

\* str.len(): the number of bytes (every character of the model is ASCII).
StrLen(s) == Len(s)

\* <str as Ord>::cmp: lexicographic on bytes.
RECURSIVE StrCmp(_, _)
StrCmp(a, b) ==
    IF a = <<>> /\ b = <<>> THEN "Equal"
    ELSE IF a = <<>> THEN "Less"
    ELSE IF b = <<>> THEN "Greater"
    ELSE IF Byte(a[1]) < Byte(b[1]) THEN "Less"
    ELSE IF Byte(a[1]) > Byte(b[1]) THEN "Greater"
    ELSE StrCmp(Tail(a), Tail(b))

RECURSIVE DecimalValue(_)
DecimalValue(s) ==
    IF s = <<>> THEN 0
    ELSE 10 * DecimalValue(SubSeq(s, 1, Len(s) - 1)) + (Byte(s[Len(s)]) - 48)

\* str::parse::<f64>().  Over the characters of Byte the strings f64's grammar
\* accepts are the non-empty digit strings and "NaN" (no sign, point or
\* exponent digit string can be written; "e" occurs only inside "Field" and
\* "Value").  The empty string is an Err.
ParseF64(s) ==
    IF s = <<"N", "a", "N">> THEN [ok |-> TRUE, nan |-> TRUE, val |-> 0]
    ELSE IF s # <<>> /\ \A i \in 1..Len(s) : IsDigit(s[i])
         THEN [ok |-> TRUE, nan |-> FALSE, val |-> DecimalValue(s)]
    ELSE [ok |-> FALSE, nan |-> FALSE, val |-> 0]

\* f64::partial_cmp(..).unwrap_or(Equal)
PartialCmpOrEqual(x, y) ==
    IF x.nan \/ y.nan THEN "Equal"
    ELSE IF x.val < y.val THEN "Less"
    ELSE IF x.val > y.val THEN "Greater"
    ELSE "Equal"

compare_cells(a, b) ==
    LET pa == ParseF64(a)
        pb == ParseF64(b)
    IN  IF pa.ok /\ pb.ok THEN PartialCmpOrEqual(pa, pb) ELSE StrCmp(a, b)

\* Ordering::reverse
OrdReverse(ord) ==
    CASE ord = "Less" -> "Greater" [] ord = "Greater" -> "Less" [] OTHER -> "Equal"

----------------------------------------------------------------------------
(* slice::sort_by on the row indices (sort_table, lines 614-625) *)

\* The closure handed to sort_by, on rows i and j (1-based) of the key column.
SortClosure(col, ascending, i, j) ==
    LET ord == compare_cells(col[i], col[j])
    IN  IF ascending THEN ord ELSE OrdReverse(ord)

\* is_less taken as "not greater".
IsLess_OrEqual(col, ascending, i, j) == SortClosure(col, ascending, i, j) # "Greater"

IsLess(col, ascending, i, j) == SortClosure(col, ascending, i, j) = "Less"

\* std's stable sort is an insertion sort for slices of at most 20 elements.
\* Current std (driftsort): insertion_sort_shift_left, which inserts v[i]
\* into the sorted prefix, moving it left while it is less than its left
\* neighbour.
\* The inserted element moving left past the neighbours it is equal to.
InsertTail_PastEqual(col, ascending, sorted, x) ==
    LET fits(k) == \A m \in (k + 1)..Len(sorted) :
                       SortClosure(col, ascending, x, sorted[m]) # "Greater"
        k == CHOOSE n \in 0..Len(sorted) :
                 fits(n) /\ \A m \in 0..(n - 1) : ~fits(m)
    IN  SubSeq(sorted, 1, k) \o <<x>> \o SubSeq(sorted, k + 1, Len(sorted))

RECURSIVE InsertTail(_, _, _, _)
InsertTail(col, ascending, sorted, x) ==
    IF sorted = <<>> \/ ~IsLess(col, ascending, x, sorted[Len(sorted)])
    THEN Append(sorted, x)
    ELSE Append(InsertTail(col, ascending, SubSeq(sorted, 1, Len(sorted) - 1), x),
                sorted[Len(sorted)])

RECURSIVE SortShiftLeft(_, _, _)
SortShiftLeft(col, ascending, k) ==
    IF k = 0 THEN <<>>
    ELSE InsertTail(col, ascending, SortShiftLeft(col, ascending, k - 1), k)

\* Older std (merge_sort): insert_head from the back, which inserts v[i] into
\* the sorted suffix, moving it right while its right neighbour is less.
RECURSIVE InsertHead(_, _, _, _)
InsertHead(col, ascending, x, sorted) ==
    IF sorted = <<>> \/ ~IsLess(col, ascending, sorted[1], x)
    THEN <<x>> \o sorted
    ELSE <<sorted[1]>> \o InsertHead(col, ascending, x, Tail(sorted))

RECURSIVE SortInsertHead(_, _, _, _)
SortInsertHead(col, ascending, k, n) ==
    IF k > n THEN <<>>
    ELSE InsertHead(col, ascending, k, SortInsertHead(col, ascending, k + 1, n))

\* indices after indices.sort_by(..): the rows of the table in their new order.
\* The two insertion sorts agree whenever the closure is a total preorder on
\* the column; where it is not, the order is unspecified and is the one the
\* std of the build produces.
SortedIndices(col, ascending, num_rows, impl) ==
    IF impl = "shift_left" THEN SortShiftLeft(col, ascending, num_rows)
    ELSE SortInsertHead(col, ascending, 1, num_rows)

----------------------------------------------------------------------------
(* Number formatting *)

DigitChar(d) ==
    CASE d = 0 -> "0" [] d = 1 -> "1" [] d = 2 -> "2" [] d = 3 -> "3"
      [] d = 4 -> "4" [] d = 5 -> "5" [] d = 6 -> "6" [] d = 7 -> "7"
      [] d = 8 -> "8" [] d = 9 -> "9"

\* usize::to_string, and f64::to_string of a non-negative integral value
\* (Display prints 19.0 as "19").
RECURSIVE UIntToString(_)
UIntToString(n) ==
    IF n < 10 THEN <<DigitChar(n)>>
    ELSE Append(UIntToString(n \div 10), DigitChar(n % 10))

\* f64::to_string of a parsed value or of a sum of parsed values.
F64ToString(x) == IF x.nan THEN <<"N", "a", "N">> ELSE UIntToString(x.val)

\* f64 addition on the values ParseF64 yields (integers far below 2^53, so
\* the sum is exact; NaN is absorbing).
F64Add(x, y) ==
    IF x.nan \/ y.nan THEN [ok |-> TRUE, nan |-> TRUE, val |-> 0]
    ELSE [ok |-> TRUE, nan |-> FALSE, val |-> x.val + y.val]

----------------------------------------------------------------------------
(* TuiApp *)

\* AggregationFunction::iter(): the variants in declaration order.
AggregationFunctions == <<"Count", "UniqueCount", "Sum">>

Fixed(w) == [kind |-> "Fixed", w |-> w]
Content == [kind |-> "Content", w |-> 0]

\* The width every column starts with, and returns to from Content.
DefaultFixedWidth == 15

\* unwrap_or(10): the content length used for a column without cells.
EmptyContentLen == 10

None == [some |-> FALSE, str |-> <<>>]
Some(s) == [some |-> TRUE, str |-> s]

\* HashMap::new()
EmptyMap == [c \in {} |-> <<>>]

\* the num_rows computation of main_loop (Down), draw_ui and sort_table
NumRows(table) ==
    IF table.columns = <<>> THEN 0 ELSE Len(table.columns[1])

\* TuiApp::new
TuiApp_new(table) ==
    [ table |-> table,
      selected_row |-> 0,
      selected_column |-> 0,
      show_aggregation_popup |-> FALSE,
      aggregation_state |-> 0,
      selected_aggregations |-> EmptyMap,
      awaiting_g_key |-> FALSE,
      column_widths |-> [i \in 1..Len(table.headers) |-> Fixed(DefaultFixedWidth)],
      horizontal_offset |-> 0,
      table_area_width |-> 0 ]

Max(S) == CHOOSE x \in S : \A y \in S : y <= x

\* get_column_width with the floor of 10 applied to every Content column.
get_column_width_Floor10(app, index) ==
    LET width == app.column_widths[index + 1]
        column == app.table.columns[index + 1]
    IN  IF width.kind = "Fixed" THEN width.w
        ELSE Max({EmptyContentLen} \cup {StrLen(column[r]) : r \in 1..Len(column)}) + 2

\* TuiApp::get_column_width (index is 0-based); the caller has checked that
\* index is a column of the table.
get_column_width(app, index) ==
    LET width == app.column_widths[index + 1]
        column == app.table.columns[index + 1]
    IN  IF width.kind = "Fixed" THEN width.w
        ELSE (IF column = <<>> THEN EmptyContentLen
              ELSE Max({StrLen(column[r]) : r \in 1..Len(column)})) + 2

RECURSIVE ColStart(_, _)
ColStart(app, n) ==
    IF n = 0 THEN 0 ELSE ColStart(app, n - 1) + get_column_width(app, n - 1) + 1

SaturatingSub(a, b) == IF a >= b THEN a - b ELSE 0

\* The border columns draw_ui's Block takes from the table area.
BorderColumns == 2

\* adjust_horizontal_offset with the right edge tested on col_start alone.
adjust_horizontal_offset_NoWidth(app) ==
    LET col_start == ColStart(app, app.selected_column)
        selected_col_width == get_column_width(app, app.selected_column)
        visible_width == SaturatingSub(app.table_area_width, BorderColumns)
    IN  IF col_start < app.horizontal_offset
        THEN [app EXCEPT !.horizontal_offset = col_start]
        ELSE IF col_start > app.horizontal_offset + visible_width
        THEN [app EXCEPT !.horizontal_offset =
                             col_start + selected_col_width - visible_width]
        ELSE app

\* TuiApp::adjust_horizontal_offset.  The u16 sums stay far below 2^16 for
\* the widths of the model.
adjust_horizontal_offset(app) ==
    LET col_start == ColStart(app, app.selected_column)
        selected_col_width == get_column_width(app, app.selected_column)
        visible_width == SaturatingSub(app.table_area_width, BorderColumns)
    IN  IF col_start < app.horizontal_offset
        THEN [app EXCEPT !.horizontal_offset = col_start]
        ELSE IF col_start + selected_col_width > app.horizontal_offset + visible_width
        THEN [app EXCEPT !.horizontal_offset =
                             col_start + selected_col_width - visible_width]
        ELSE app

\* The match arm shared by '_' and 'g' '_'.
ToggleWidth(width) ==
    IF width.kind = "Fixed" THEN Content ELSE Fixed(DefaultFixedWidth)

\* sort_table reordering the key column alone.
sort_table_KeyColumnOnly(app, ascending, impl) ==
    LET col_idx == app.selected_column
        num_rows == NumRows(app.table)
        indices ==
            IF num_rows < 2 THEN [i \in 1..num_rows |-> i]
            ELSE SortedIndices(app.table.columns[col_idx + 1], ascending, num_rows, impl)
        reordered == [c \in 1..Len(app.table.columns) |->
                         IF c = col_idx + 1
                         THEN [i \in 1..num_rows |-> app.table.columns[c][indices[i]]]
                         ELSE app.table.columns[c]]
    IN  [app EXCEPT !.table.columns = reordered, !.selected_row = 0]

\* sort_table putting the whole cursor back to the top left cell.
sort_table_ResetCursor(app, ascending, impl) ==
    LET col_idx == app.selected_column
        num_rows == NumRows(app.table)
        indices ==
            IF num_rows < 2 THEN [i \in 1..num_rows |-> i]
            ELSE SortedIndices(app.table.columns[col_idx + 1], ascending, num_rows, impl)
        reordered == [c \in 1..Len(app.table.columns) |->
                         [i \in 1..num_rows |-> app.table.columns[c][indices[i]]]]
    IN  [app EXCEPT !.table.columns = reordered, !.selected_row = 0,
                    !.selected_column = 0, !.horizontal_offset = 0]

\* A descending sort done as the ascending one read backwards.
sort_table_ReverseAscending(app, ascending, impl) ==
    LET col_idx == app.selected_column
        num_rows == NumRows(app.table)
        asc == IF num_rows < 2 THEN [i \in 1..num_rows |-> i]
               ELSE SortedIndices(app.table.columns[col_idx + 1], TRUE, num_rows, impl)
        indices == IF ascending THEN asc
                   ELSE [i \in 1..num_rows |-> asc[num_rows + 1 - i]]
        reordered == [c \in 1..Len(app.table.columns) |->
                         [i \in 1..num_rows |-> app.table.columns[c][indices[i]]]]
    IN  [app EXCEPT !.table.columns = reordered, !.selected_row = 0]

\* TuiApp::sort_table
sort_table(app, ascending, impl) ==
    LET col_idx == app.selected_column
        num_rows == NumRows(app.table)
        indices ==
            IF num_rows < 2 THEN [i \in 1..num_rows |-> i]
            ELSE SortedIndices(app.table.columns[col_idx + 1], ascending, num_rows, impl)
        reordered == [c \in 1..Len(app.table.columns) |->
                         [i \in 1..num_rows |-> app.table.columns[c][indices[i]]]]
    IN  [app EXCEPT !.table.columns = reordered, !.selected_row = 0]

\* open_detail_view reading the first row instead of the selected one.
open_detail_view_FirstRow(app) ==
    LET field_column == app.table.headers
        value_column == [c \in 1..Len(app.table.columns) |->
                            app.table.columns[c][1]]
    IN  TuiApp_new([headers |-> << <<"F", "i", "e", "l", "d">>,
                                   <<"V", "a", "l", "u", "e">> >>,
                    columns |-> <<field_column, value_column>>])

\* TuiApp::open_detail_view; the caller has checked col[selected_row] exists.
open_detail_view(app) ==
    LET field_column == app.table.headers
        value_column == [c \in 1..Len(app.table.columns) |->
                            app.table.columns[c][app.selected_row + 1]]
    IN  TuiApp_new([headers |-> << <<"F", "i", "e", "l", "d">>,
                                   <<"V", "a", "l", "u", "e">> >>,
                    columns |-> <<field_column, value_column>>])

\* Vec::contains
Contains(vec, x) == \E i \in 1..Len(vec) : vec[i] = x

\* Vec::retain(|&y| y != x)
RECURSIVE RetainNot(_, _)
RetainNot(vec, x) ==
    IF vec = <<>> THEN <<>>
    ELSE IF vec[1] = x THEN RetainNot(Tail(vec), x)
    ELSE <<vec[1]>> \o RetainNot(Tail(vec), x)

MapRemove(map, key) == [c \in (DOMAIN map) \ {key} |-> map[c]]
MapInsert(map, key, value) ==
    [c \in (DOMAIN map) \cup {key} |-> IF c = key THEN value ELSE map[c]]

\* The popup toggle without the removal of an entry that became empty.
PopupToggle_KeepEmpty(app) ==
    LET index == app.aggregation_state
        agg == AggregationFunctions[index + 1]
        key == app.selected_column
        map == app.selected_aggregations
        entry == IF key \in DOMAIN map THEN map[key] ELSE <<>>
    IN  IF Contains(entry, agg)
        THEN [app EXCEPT !.selected_aggregations =
                             MapInsert(map, key, RetainNot(entry, agg))]
        ELSE [app EXCEPT !.selected_aggregations = MapInsert(map, key, Append(entry, agg))]

\* main_loop, popup branch, KeyCode::Char(' ') (lines 124-140)
PopupToggle(app) ==
    LET index == app.aggregation_state
        agg == AggregationFunctions[index + 1]
        key == app.selected_column
        map == app.selected_aggregations
        entry == IF key \in DOMAIN map THEN map[key] ELSE <<>>
    IN  IF Contains(entry, agg)
        THEN LET kept == RetainNot(entry, agg)
             IN  IF kept = <<>>
                 THEN [app EXCEPT !.selected_aggregations = MapRemove(map, key)]
                 ELSE [app EXCEPT !.selected_aggregations = MapInsert(map, key, kept)]
        ELSE [app EXCEPT !.selected_aggregations = MapInsert(map, key, Append(entry, agg))]

----------------------------------------------------------------------------
(* Aggregation and drawing *)

\* column_data.iter().filter_map(|v| v.parse::<f64>().ok()).collect()
RECURSIVE ParsedData(_)
ParsedData(column_data) ==
    IF column_data = <<>> THEN <<>>
    ELSE LET p == ParseF64(column_data[1])
         IN  (IF p.ok THEN <<p>> ELSE <<>>) \o ParsedData(Tail(column_data))

\* A sum that leaves out the last value.
F64Sum_DropLast(parsed_data) ==
    IF Len(parsed_data) < 2 THEN [ok |-> TRUE, nan |-> FALSE, val |-> 0]
    ELSE F64Add(parsed_data[1], [ok |-> TRUE, nan |-> FALSE, val |-> 0])

\* parsed_data.iter().sum()
RECURSIVE F64Sum(_)
F64Sum(parsed_data) ==
    IF parsed_data = <<>> THEN [ok |-> TRUE, nan |-> FALSE, val |-> 0]
    ELSE F64Add(F64Sum(SubSeq(parsed_data, 1, Len(parsed_data) - 1)),
                parsed_data[Len(parsed_data)])

\* The Sum arm summing whatever parses.
AggregateSum_Partial(column_data) ==
    LET parsed_data == ParsedData(column_data)
    IN  IF parsed_data # <<>>
        THEN Some(F64ToString(F64Sum(parsed_data)))
        ELSE None

\* The AggregationFunction::Sum arm of calculate_aggregations (lines 550-565)
AggregateSum(column_data) ==
    LET parsed_data == ParsedData(column_data)
    IN  IF Len(parsed_data) = Len(column_data) /\ parsed_data # <<>>
        THEN Some(F64ToString(F64Sum(parsed_data)))
        ELSE None

\* UniqueCount as the number of runs of equal neighbours.
Aggregate_CountRuns(column_data, agg) ==
    CASE agg = "Sum" -> AggregateSum(column_data)
      [] agg = "Count" -> Some(UIntToString(Len(column_data)))
      [] agg = "UniqueCount" ->
            Some(UIntToString(Cardinality(
                {r \in 1..Len(column_data) :
                    r = 1 \/ column_data[r] # column_data[r - 1]})))

\* The match of calculate_aggregations (lines 549-574)
Aggregate(column_data, agg) ==
    CASE agg = "Sum" -> AggregateSum(column_data)
      [] agg = "Count" -> Some(UIntToString(Len(column_data)))
      [] agg = "UniqueCount" ->
            Some(UIntToString(Cardinality({column_data[r] : r \in 1..Len(column_data)})))

\* TuiApp::calculate_aggregations: column -> (function -> Option<String>).
\* A column whose Vec is empty gets no entry (line 578).
calculate_aggregations(app) ==
    LET map == app.selected_aggregations
        cols == {c \in DOMAIN map : map[c] # <<>>}
    IN  [c \in cols |->
            [agg \in {map[c][i] : i \in 1..Len(map[c])} |->
                Aggregate(app.table.columns[c + 1], agg)]]

\* draw_ui indexes self.table.data.columns[col_idx] for every key of
\* selected_aggregations (line 545): out of range is a panic.
DrawPanics(app) ==
    \E c \in DOMAIN app.selected_aggregations : c >= Len(app.table.columns)

\* What draw_ui leaves behind: the width of the table area (line 320).  The
\* vertical split keeps the full width of the terminal for chunks[0].
draw_ui(app, width) == [app EXCEPT !.table_area_width = width]

\* What draw_ui shows of the aggregations (lines 293-298, 385-448).
Frame(app) ==
    LET show_aggregation_block == app.selected_aggregations # EmptyMap
    IN  [ show_aggregation_block |-> show_aggregation_block,
          agg_results |-> IF show_aggregation_block
                          THEN calculate_aggregations(app) ELSE EmptyMap ]

NoFrame == [show_aggregation_block |-> FALSE, agg_results |-> EmptyMap]

----------------------------------------------------------------------------
(* main_loop: the dispatch on one event *)

\* The stack of viewers is explored up to this depth.
MaxDepth == 2

\* On a table without rows a build without overflow checks lets Down count
\* selected_row up without limit; the model follows it up to this value.
MaxRowOverrun == 2

KeyCodes == {"Up", "Down", "Left", "Right", "[", "]", " ", "Enter", "q",
             "g", "-", "_", "x"}

Continue(app) == [ret |-> "continue", app |-> app]
Return(what, app) == [ret |-> what, app |-> app]

NumAggregationFunctions == Len(AggregationFunctions)

\* The popup cursor clamped at both ends as the grid's is.
PopupKey_Clamped(app, code) ==
    CASE code = "Up" ->
            Continue([app EXCEPT !.aggregation_state = IF @ = 0 THEN 0 ELSE @ - 1])
      [] code = "Down" ->
            Continue([app EXCEPT !.aggregation_state =
                IF @ >= NumAggregationFunctions - 1 THEN @ ELSE @ + 1])
      [] code = " " -> Continue(PopupToggle(app))
      [] code \in {"Enter", "q"} ->
            Continue([app EXCEPT !.show_aggregation_popup = FALSE])
      [] OTHER -> Continue(app)

\* The popup branch with an arm for 'g' that arms the chord.
PopupKey_ArmsChord(app, code) ==
    CASE code = "Up" ->
            Continue([app EXCEPT !.aggregation_state =
                IF @ = 0 THEN NumAggregationFunctions - 1 ELSE @ - 1])
      [] code = "Down" ->
            Continue([app EXCEPT !.aggregation_state =
                IF @ >= NumAggregationFunctions - 1 THEN 0 ELSE @ + 1])
      [] code = " " -> Continue(PopupToggle(app))
      [] code \in {"Enter", "q"} ->
            Continue([app EXCEPT !.show_aggregation_popup = FALSE])
      [] code = "g" -> Continue([app EXCEPT !.awaiting_g_key = TRUE])
      [] OTHER -> Continue(app)

\* popup branch (lines 95-146)
PopupKey(app, code) ==
    CASE code = "Up" ->
            Continue([app EXCEPT !.aggregation_state =
                IF @ = 0 THEN NumAggregationFunctions - 1 ELSE @ - 1])
      [] code = "Down" ->
            Continue([app EXCEPT !.aggregation_state =
                IF @ >= NumAggregationFunctions - 1 THEN 0 ELSE @ + 1])
      [] code = " " -> Continue(PopupToggle(app))
      [] code \in {"Enter", "q"} ->
            Continue([app EXCEPT !.show_aggregation_popup = FALSE])
      [] OTHER -> Continue(app)

\* Down wrapping from the last row to the first.
KeyDown_Wraps(app, bld) ==
    LET num_rows == NumRows(app.table)
    IN  IF num_rows = 0
        THEN IF bld.overflow_checks THEN Return("panic", app)
             ELSE IF app.selected_row >= MaxRowOverrun THEN Return("beyond", app)
             ELSE Continue([app EXCEPT !.selected_row = @ + 1])
        ELSE IF app.selected_row < num_rows - 1
             THEN Continue([app EXCEPT !.selected_row = @ + 1])
             ELSE Continue([app EXCEPT !.selected_row = 0])

\* KeyCode::Down (lines 192-202).  num_rows - 1 on a table without rows
\* panics in a build with overflow checks and wraps to usize::MAX otherwise.
KeyDown(app, bld) ==
    LET num_rows == NumRows(app.table)
    IN  IF num_rows = 0
        THEN IF bld.overflow_checks THEN Return("panic", app)
             ELSE IF app.selected_row >= MaxRowOverrun THEN Return("beyond", app)
             ELSE Continue([app EXCEPT !.selected_row = @ + 1])
        ELSE IF app.selected_row < num_rows - 1
             THEN Continue([app EXCEPT !.selected_row = @ + 1])
             ELSE Continue(app)

\* KeyCode::Right (lines 209-214).  headers.len() - 1 on a table without
\* columns panics in a build with overflow checks; otherwise it wraps,
\* selected_column becomes 1 and get_column_width(0) indexes the empty
\* column_widths, which panics too.
KeyRight(app, bld) ==
    IF Len(app.table.headers) = 0 THEN Return("panic", app)
    ELSE IF app.selected_column < Len(app.table.headers) - 1
         THEN Continue(adjust_horizontal_offset(
                          [app EXCEPT !.selected_column = @ + 1]))
         ELSE Continue(app)

\* KeyCode::Left (lines 203-208)
KeyLeft(app) ==
    IF app.selected_column > 0
    THEN Continue(adjust_horizontal_offset([app EXCEPT !.selected_column = @ - 1]))
    ELSE Continue(app)

\* '_' toggling every column, as g_ does.
KeyToggleWidth_All(app) ==
    Continue([app EXCEPT !.column_widths = [i \in DOMAIN @ |-> ToggleWidth(@[i])]])

\* KeyCode::Char('_') (lines 177-185): column_widths.get_mut(selected_column)
KeyToggleWidth(app) ==
    IF app.selected_column < Len(app.column_widths)
    THEN Continue([app EXCEPT
            !.column_widths[app.selected_column + 1] = ToggleWidth(@)])
    ELSE Continue(app)

\* KeyCode::Enter (lines 225-228): col[selected_row] panics out of range.
KeyEnter(app) ==
    IF \E c \in 1..Len(app.table.columns) :
           app.selected_row >= Len(app.table.columns[c])
    THEN Return("panic", app)
    ELSE Return("push", app)

\* Normal branch (lines 172-233)
NormalKey(app, code, bld) ==
    CASE code = "g" -> Continue([app EXCEPT !.awaiting_g_key = TRUE])
      [] code = "_" -> KeyToggleWidth(app)
      [] code = "Up" ->
            Continue([app EXCEPT !.selected_row = IF @ > 0 THEN @ - 1 ELSE @])
      [] code = "Down" -> KeyDown(app, bld)
      [] code = "Left" -> KeyLeft(app)
      [] code = "Right" -> KeyRight(app, bld)
      [] code = "[" -> Continue(sort_table(app, TRUE, bld.sort))
      [] code = "]" -> Continue(sort_table(app, FALSE, bld.sort))
      [] code = " " ->
            Continue([app EXCEPT !.show_aggregation_popup = TRUE,
                                 !.aggregation_state = 0])
      [] code = "Enter" -> KeyEnter(app)
      [] code = "q" -> Return("pop", app)
      [] OTHER -> Continue(app)

\* The awaiting_g_key branch with a last arm that clears the flag and then
\* handles the key as the normal branch does.
ChordKey_FallThrough(app, code) ==
    CASE code = "-" ->
            Continue([app EXCEPT !.selected_aggregations = EmptyMap,
                                 !.awaiting_g_key = FALSE])
      [] code = "_" ->
            Continue([app EXCEPT
                !.column_widths = [i \in DOMAIN @ |-> ToggleWidth(@[i])],
                !.awaiting_g_key = FALSE])
      [] OTHER -> NormalKey([app EXCEPT !.awaiting_g_key = FALSE], code,
                            [overflow_checks |-> TRUE, sort |-> "shift_left"])

\* g- clearing the selections of the selected column only.
ChordKey_ClearSelected(app, code) ==
    CASE code = "-" ->
            Continue([app EXCEPT
                !.selected_aggregations = MapRemove(@, app.selected_column),
                !.awaiting_g_key = FALSE])
      [] code = "_" ->
            Continue([app EXCEPT
                !.column_widths = [i \in DOMAIN @ |-> ToggleWidth(@[i])],
                !.awaiting_g_key = FALSE])
      [] OTHER -> Continue([app EXCEPT !.awaiting_g_key = FALSE])

\* awaiting_g_key branch (lines 149-170)
ChordKey(app, code) ==
    CASE code = "-" ->
            Continue([app EXCEPT !.selected_aggregations = EmptyMap,
                                 !.awaiting_g_key = FALSE])
      [] code = "_" ->
            Continue([app EXCEPT
                !.column_widths = [i \in DOMAIN @ |-> ToggleWidth(@[i])],
                !.awaiting_g_key = FALSE])
      [] OTHER -> Continue([app EXCEPT !.awaiting_g_key = FALSE])

\* Enter and 'q' closing the popup and then handled by the normal branch.
HandleKey_CloseThenNormal(app, code, bld) ==
    IF app.show_aggregation_popup
    THEN IF code \in {"Enter", "q"}
         THEN NormalKey([app EXCEPT !.show_aggregation_popup = FALSE], code, bld)
         ELSE PopupKey(app, code)
    ELSE IF app.awaiting_g_key THEN ChordKey(app, code)
    ELSE NormalKey(app, code, bld)

\* if let Event::Key(key) = event::read()? { .. } (lines 94-235)
HandleKey(app, code, bld) ==
    IF app.show_aggregation_popup THEN PopupKey(app, code)
    ELSE IF app.awaiting_g_key THEN ChordKey(app, code)
    ELSE NormalKey(app, code, bld)

\* An event that is not a key (lines 236-239)
HandleNonKey(app) == Continue([app EXCEPT !.awaiting_g_key = FALSE])

\* poll returned false (line 93): the loop goes round to draw_ui
HandleTimeout(app) == Continue(app)

HandleEvent(app, ev, bld) ==
    CASE ev.type = "key" -> HandleKey(app, ev.code, bld)
      [] ev.type = "timeout" -> HandleTimeout(app)
      [] OTHER -> HandleNonKey(app)

----------------------------------------------------------------------------
(* main: the app_stack loop (lines 92-111) *)

Top == app_stack[Len(app_stack)]
ReplaceTop(stack, app) == [stack EXCEPT ![Len(stack)] = app]
ButLast(stack) == SubSeq(stack, 1, Len(stack) - 1)

\* A pop that builds the resumed viewer anew from its table.
StackAfter_ResetOnPop(r) ==
    CASE r.ret = "push" -> Append(ReplaceTop(app_stack, r.app), open_detail_view(r.app))
      [] r.ret = "pop" ->
            IF Len(app_stack) > 1
            THEN ReplaceTop(ButLast(app_stack),
                            TuiApp_new(app_stack[Len(app_stack) - 1].table))
            ELSE ButLast(app_stack)
      [] OTHER -> ReplaceTop(app_stack, r.app)

\* The stack as main leaves it once main_loop has handled the event.
StackAfter(r) ==
    CASE r.ret = "push" -> Append(ReplaceTop(app_stack, r.app), open_detail_view(r.app))
      [] r.ret = "pop" -> ButLast(app_stack)
      [] OTHER -> ReplaceTop(app_stack, r.app)

\* A panic unwinds out of main: the terminal is left as it is.
Panic(stack) ==
    /\ pc' = "panicked"
    /\ app_stack' = stack
    /\ UNCHANGED <<frame, raw_mode, alt_screen>>

\* The stack is empty: show_cursor, disable_raw_mode, LeaveAlternateScreen.
Teardown ==
    /\ pc' = "exited"
    /\ app_stack' = <<>>
    /\ raw_mode' = FALSE
    /\ alt_screen' = FALSE
    /\ UNCHANGED frame

\* The next main_loop iteration of the top viewer: draw_ui, then poll.
DrawTop(stack, width) ==
    LET app == stack[Len(stack)]
    IN  IF DrawPanics(app) THEN Panic(stack)
        ELSE /\ app_stack' = ReplaceTop(stack, draw_ui(app, width))
             /\ frame' = Frame(app)
             /\ UNCHANGED <<pc, raw_mode, alt_screen>>

\* One iteration: the event ev arrives while the terminal is width wide.
Step(ev, width) ==
    /\ pc = "running"
    /\ LET r == HandleEvent(Top, ev, build)
       IN  /\ r.ret # "beyond"
           /\ r.ret = "push" => Len(app_stack) < MaxDepth
           /\ IF r.ret = "panic" THEN Panic(app_stack)
              ELSE LET stack == StackAfter(r)
                   IN  IF stack = <<>> THEN Teardown ELSE DrawTop(stack, width)
    /\ term_width' = width
    /\ last_event' = ev
    /\ last_ret' = HandleEvent(Top, ev, build).ret
    /\ UNCHANGED build

Key(code) == [type |-> "key", code |-> code]
NonKey(type) == [type |-> type, code |-> ""]

KeyEvent(code) == Step(Key(code), term_width)

\* Event::Resize(w, _): the next draw_ui sees the new width.
ResizeEvent(width) ==
    /\ width # term_width
    /\ Step(NonKey("resize"), width)

\* Event::Mouse, Event::FocusGained, ...
OtherEvent == Step(NonKey("other"), term_width)

PollTimeout == Step(NonKey("timeout"), term_width)

\* draw_ui, poll or read returns Err: `?` returns it from main_loop and from
\* main, past the teardown.
IoError ==
    /\ pc = "running"
    /\ pc' = "error"
    /\ UNCHANGED <<app_stack, term_width, frame, raw_mode, alt_screen, build,
                   last_event, last_ret>>

----------------------------------------------------------------------------
(* Tables and initial states *)

Table(headers, columns) == [headers |-> headers, columns |-> columns]

\* The rectangular tables CsvLoader::load can produce with the given headers:
\* every column has the same number of rows, at most max_rows, and column k
\* draws its cells from cells[k].
RECURSIVE ColumnTuples(_, _, _)
ColumnTuples(cells, num_rows, k) ==
    IF k = 0 THEN {<<>>}
    ELSE {Append(t, column) : t \in ColumnTuples(cells, num_rows, k - 1),
                              column \in [1..num_rows -> cells[k]]}

TablesOver(headers, cells, max_rows) ==
    UNION { {Table(headers, columns) :
                columns \in ColumnTuples(cells, num_rows, Len(headers))} :
            num_rows \in 0..max_rows }

\* The viewer after main_loop has handled the keys in turn, none of which
\* makes it return, and has drawn at the given width.
RECURSIVE AfterKeys(_, _, _, _)
AfterKeys(app, keys, width, bld) ==
    IF keys = <<>> THEN draw_ui(app, width)
    ELSE AfterKeys(HandleKey(draw_ui(app, width), keys[1], bld).app,
                   Tail(keys), width, bld)

\* The state main reaches before a poll: the terminal session is open,
\* app_stack holds the root viewer, which has handled the keys of a prefix
\* (none: the state before the first poll) and has been drawn.
InitAfter(tables, widths, builds, prefixes) ==
    /\ build \in builds
    /\ \E table \in tables, width \in widths, prefix \in prefixes :
          LET app == AfterKeys(TuiApp_new(table), prefix, width, build)
          IN  /\ app_stack = <<app>>
              /\ term_width = width
              /\ frame = Frame(app)
              /\ last_event = IF prefix = <<>> THEN NonKey("none")
                              ELSE Key(prefix[Len(prefix)])
    /\ pc = "running"
    /\ raw_mode = TRUE
    /\ alt_screen = TRUE
    /\ last_ret = "continue"

InitWith(tables, widths, builds) == InitAfter(tables, widths, builds, {<<>>})

Builds == [overflow_checks : BOOLEAN, sort : {"shift_left", "insert_head"}]

----------------------------------------------------------------------------
(* Navigation: Left/Right, width toggles and resizes on a three-column table *)

\* The longest cell of the navigation table has this many characters.
LongCellLen == 20

LongCell == [i \in 1..LongCellLen |-> "a"]

NavTables ==
    { Table(<< <<"a">>, <<"b">>, <<"a", "b">> >>,
            << << <<"9">> >>, <<LongCell>>, << <<"1", "0">> >> >>) }

TermWidths == {12, 24, 40}

NavKeys == {"Left", "Right", "_", "g"}

InitNav == InitWith(NavTables, TermWidths, {b \in Builds : b.overflow_checks /\ b.sort = "shift_left"})

NextNav ==
    \/ \E code \in NavKeys : KeyEvent(code)
    \/ \E width \in TermWidths : ResizeEvent(width)

SpecNav == InitNav /\ [][NextNav]_vars

\* The width adjust_horizontal_offset takes for the viewport.
ViewportWidth(app) == SaturatingSub(app.table_area_width, BorderColumns)

\* The selected column's span [colStart, colStart+colWidth) lies within
\* [horizontalOffset, horizontalOffset+viewportWidth).
ColumnVisible(app) ==
    LET col_start == ColStart(app, app.selected_column)
        col_width == get_column_width(app, app.selected_column)
    IN  /\ app.horizontal_offset <= col_start
        /\ col_start + col_width <= app.horizontal_offset + ViewportWidth(app)

SelectedFits(app) == get_column_width(app, app.selected_column) <= ViewportWidth(app)

\* The step handled a Left or Right key in the top viewer, which stays on top.
LeftRightStep ==
    /\ pc = "running" /\ pc' = "running"
    /\ Len(app_stack') = Len(app_stack)
    /\ last_event' \in {Key("Left"), Key("Right")}
    /\ ~Top.show_aggregation_popup /\ ~Top.awaiting_g_key

TopAfter == app_stack'[Len(app_stack')]

ColumnMoved == LeftRightStep /\ TopAfter.selected_column # Top.selected_column

----------------------------------------------------------------------------
(* The view stack: Enter and q around navigation, sort, width and popup keys *)

StackTables ==
    { Table(<< <<"a">>, <<"b">> >>,
            << << <<"1", "0">>, <<"9">> >>, << <<"a">>, <<"b">> >> >>) }

StackWidths == {24}

\* Keys the root viewer has handled before the run: none; Count selected for
\* column 0; Sum and UniqueCount selected for column 0 and every column
\* toggled to Content.
StackPrefixes ==
    { <<>>,
      <<" ", " ", "q">>,
      <<" ", "Up", " ", "Up", " ", "q", "g", "_">> }

StackKeys == {"Enter", "q", "Down", "Right", "[", "_"}

InitStack ==
    InitAfter(StackTables, StackWidths,
              {b \in Builds : b.overflow_checks /\ b.sort = "shift_left"},
              StackPrefixes)

NextStack == \E code \in StackKeys : KeyEvent(code)

SpecStack == InitStack /\ [][NextStack]_vars

\* Everything of a viewer but the table area width, which every draw_ui sets.
ViewState(app) ==
    [ table |-> app.table,
      selected_row |-> app.selected_row,
      selected_column |-> app.selected_column,
      horizontal_offset |-> app.horizontal_offset,
      column_widths |-> app.column_widths,
      selected_aggregations |-> app.selected_aggregations,
      show_aggregation_popup |-> app.show_aggregation_popup,
      aggregation_state |-> app.aggregation_state,
      awaiting_g_key |-> app.awaiting_g_key ]

\* C2: no step changes a viewer that lies beneath the top of the stack, a
\* push leaves the viewer it was opened from as it was, and a pop uncovers
\* the viewer beneath as it was: selected row and column, horizontal offset,
\* table (row order), width policies and aggregation selections of a viewer
\* are the same from the push of its detail view to the pop that resumes it.
C2_BeneathUnchanged ==
    [][\A i \in 1..Len(app_stack) :
          (/\ i <= Len(app_stack')
           /\ (i < Len(app_stack) \/ Len(app_stack') > Len(app_stack)))
          => ViewState(app_stack'[i]) = ViewState(app_stack[i])]_vars

\* A detail view was quit; the viewer resumed is one that had been moved,
\* scrolled, sorted, widened and aggregated before the push.
C2_Witness ==
    /\ pc = "running"
    /\ last_ret = "pop"
    /\ Len(app_stack) = 1
    /\ Top.selected_row = 1
    /\ Top.selected_column = 1
    /\ Top.horizontal_offset > 0
    /\ Top.table.columns[1] = << <<"9">>, <<"1", "0">> >>
    /\ Top.column_widths[2].kind = "Content"
    /\ 0 \in DOMAIN Top.selected_aggregations

\* C3: a push puts on top a fresh viewer on the table ["Field","Value"] whose
\* row i is (columnNames[i], columns[i][selectedRow]) of the viewer beneath.
C3_DetailProjection ==
    [][Len(app_stack') = Len(app_stack) + 1 =>
        LET parent == Top
            detail == TopAfter
            C == Len(parent.table.headers)
        IN  /\ detail.table.headers = << <<"F", "i", "e", "l", "d">>,
                                        <<"V", "a", "l", "u", "e">> >>
            /\ Len(detail.table.columns) = 2
            /\ Len(detail.table.columns[1]) = C
            /\ Len(detail.table.columns[2]) = C
            /\ \A i \in 1..C :
                  /\ detail.table.columns[1][i] = parent.table.headers[i]
                  /\ detail.table.columns[2][i] =
                         parent.table.columns[i][parent.selected_row + 1]
            /\ detail.selected_row = 0
            /\ detail.selected_column = 0
            /\ detail.horizontal_offset = 0
            /\ detail.column_widths = <<Fixed(15), Fixed(15)>>
            /\ detail.selected_aggregations = EmptyMap
            /\ ~detail.show_aggregation_popup
            /\ ~detail.awaiting_g_key]_vars

\* The detail view of row 1 of a sorted table has just been opened.
C3_Witness ==
    /\ pc = "running"
    /\ last_ret = "push"
    /\ Len(app_stack) = 2
    /\ app_stack[1].selected_row = 1
    /\ app_stack[1].table.columns[1] = << <<"9">>, <<"1", "0">> >>
    /\ Top.table.columns = << << <<"a">>, <<"b">> >>, << <<"1", "0">>, <<"a">> >> >>
    /\ Top.selected_row = 0

----------------------------------------------------------------------------
(* The chord prefix 'g': completion keys, other keys, other events, timeouts *)

ChordWidths == {24, 40}

\* Keys pressed in any mode, and keys pressed only while a chord is pending.
ChordKeys == {"g", "-", "_", "Down", "Right", "[", "q", "x"}
ChordOnlyKeys == {"Enter", " "}

InitChord ==
    InitAfter(StackTables, ChordWidths,
              {b \in Builds : b.overflow_checks /\ b.sort = "shift_left"},
              StackPrefixes)

NextChord ==
    \/ \E code \in ChordKeys : KeyEvent(code)
    \/ \E code \in ChordOnlyKeys :
          /\ pc = "running"
          /\ Top.awaiting_g_key
          /\ KeyEvent(code)
    \/ \E width \in ChordWidths : ResizeEvent(width)
    \/ OtherEvent
    \/ PollTimeout

SpecChord == InitChord /\ [][NextChord]_vars

ChordPending == pc = "running" /\ Top.awaiting_g_key /\ ~Top.show_aggregation_popup

\* C4: while a chord is pending, a key other than '-' and '_' only clears
\* awaiting_g_key: the stack, every viewer's selection, offset, table, widths,
\* aggregation selections and popup flag, and the frame are unchanged, and
\* main_loop does not return.
C4_ChordAbandoned ==
    [][(/\ ChordPending
        /\ last_event'.type = "key"
        /\ last_event'.code \notin {"-", "_"})
       => /\ app_stack' = ReplaceTop(app_stack, [Top EXCEPT !.awaiting_g_key = FALSE])
          /\ last_ret' = "continue"
          /\ pc' = "running"
          /\ frame' = frame]_vars

\* Enter was pressed and main_loop did not return: the key was swallowed by
\* the pending chord of a viewer that had been moved and aggregated.
C4_Witness ==
    /\ pc = "running"
    /\ last_event = Key("Enter")
    /\ last_ret = "continue"
    /\ Len(app_stack) = 1
    /\ ~Top.awaiting_g_key
    /\ Top.selected_row = 1
    /\ Top.selected_aggregations # EmptyMap

\* C5: a poll cycle without a key event cancels the pending chord: after
\* 'g' and a poll timeout the viewer no longer awaits a completion key.
C5_Original ==
    [][(ChordPending /\ last_event'.type = "timeout")
       => ~TopAfter.awaiting_g_key]_vars

----------------------------------------------------------------------------
(* Aggregation: the popup, the selection map and the aggregation panel *)

\* The one-column tables of the aggregation runs have at most this many rows.
MaxRows == 2

AggCells == { <<"9">>, <<"1", "0">>, <<"1", "a">>, <<>>, <<"N", "a", "N">> }

AggTables == TablesOver(<< <<"a">> >>, <<AggCells>>, MaxRows) \cup StackTables

AggKeys == {" ", "Up", "Down", "q", "Left", "Right", "g", "-"}

InitAgg == InitWith(AggTables, StackWidths, {b \in Builds : b.sort = "shift_left"})

NextAgg == \E code \in AggKeys : KeyEvent(code)

SpecAgg == InitAgg /\ [][NextAgg]_vars

NoDuplicates(vec) == \A i, j \in 1..Len(vec) : vec[i] = vec[j] => i = j

\* C6: no viewer's aggregation selection map holds an empty Vec or a function
\* twice, and in the open popup selecting the function under the cursor for
\* the selected column and deselecting it again gives back the map as it is.
C6_NoEmptySelection ==
    /\ \A i \in 1..Len(app_stack) :
          \A c \in DOMAIN app_stack[i].selected_aggregations :
              /\ app_stack[i].selected_aggregations[c] # <<>>
              /\ NoDuplicates(app_stack[i].selected_aggregations[c])
    /\ (pc = "running" /\ Top.show_aggregation_popup)
       => LET map == Top.selected_aggregations
              agg == AggregationFunctions[Top.aggregation_state + 1]
              selected == /\ Top.selected_column \in DOMAIN map
                          /\ Contains(map[Top.selected_column], agg)
          IN  ~selected =>
                 /\ Contains(PopupToggle(Top).selected_aggregations[Top.selected_column], agg)
                 /\ PopupToggle(PopupToggle(Top)).selected_aggregations = map

\* Column 1 has just lost its only function in the popup and has no entry,
\* while column 0 keeps its two.
C6_Witness ==
    /\ pc = "running"
    /\ Top.show_aggregation_popup
    /\ last_event = Key(" ")
    /\ Top.selected_column = 1
    /\ DOMAIN Top.selected_aggregations = {0}
    /\ Len(Top.selected_aggregations[0]) = 2
    /\ frame.agg_results # EmptyMap

AllParse(column_data) ==
    \A r \in 1..Len(column_data) : ParseF64(column_data[r]).ok

\* The Sum results the aggregation panel of the last frame shows: the columns
\* of the top viewer for which Sum is selected.
SumColumns ==
    IF pc = "running"
    THEN {c \in DOMAIN frame.agg_results : "Sum" \in DOMAIN frame.agg_results[c]}
    ELSE {}

\* C7: the panel shows no Sum for a column with a cell that does not parse.
C7_SumAllOrNothing ==
    \A c \in SumColumns :
        ~AllParse(Top.table.columns[c + 1]) => frame.agg_results[c]["Sum"] = None

\* Sum is shown as not applicable for a column whose first cell is a number
\* and whose second is not.
C7_Witness ==
    /\ pc = "running"
    /\ 0 \in SumColumns
    /\ Top.table.columns[1] = << <<"9">>, <<"1", "a">> >>
    /\ frame.agg_results[0]["Sum"] = None

\* The sum of the parsed cells of a column, first to last.
RECURSIVE SumOfCells(_)
SumOfCells(column_data) ==
    IF column_data = <<>> THEN [ok |-> TRUE, nan |-> FALSE, val |-> 0]
    ELSE F64Add(ParseF64(column_data[1]), SumOfCells(Tail(column_data)))

ShowsSumOfCells(c) ==
    /\ frame.agg_results[c]["Sum"].some
    /\ ParseF64(frame.agg_results[c]["Sum"].str) = SumOfCells(Top.table.columns[c + 1])

\* C8 as stated: every column whose cells all parse, one without rows
\* included, shows Some(sum of the parsed values).
C8_Original ==
    \A c \in SumColumns : AllParse(Top.table.columns[c + 1]) => ShowsSumOfCells(c)

\* C8, amended: a column with at least one row whose cells all parse shows
\* Some(sum of the parsed values); a column without rows shows None.
C8_SumOfNumericColumn ==
    \A c \in SumColumns :
        /\ (Top.table.columns[c + 1] # <<>> /\ AllParse(Top.table.columns[c + 1]))
           => ShowsSumOfCells(c)
        /\ Top.table.columns[c + 1] = <<>> => frame.agg_results[c]["Sum"] = None

\* The panel shows 19 as the Sum of the column "9", "10".
C8_Witness ==
    /\ pc = "running"
    /\ 0 \in SumColumns
    /\ Top.table.columns[1] = << <<"9">>, <<"1", "0">> >>
    /\ frame.agg_results[0]["Sum"] = Some(<<"1", "9">>)

----------------------------------------------------------------------------
(* Sorting: '[' and ']' on two-column tables, UniqueCount shown for both *)

\* The tables of the sort runs have at most this many rows.
SortRows == 3

SortCells == { <<"9">>, <<"1", "0">>, <<"1", "a">>, <<"0", "9">> }
TagCells == { <<"a">>, <<"b">> }

SortTables == TablesOver(<< <<"a">>, <<"b">> >>, <<SortCells, TagCells>>, SortRows)

\* Keys the viewer has handled before the run: UniqueCount selected for
\* column 0 and for column 1.
SortPrefixes ==
    { <<" ", "Down", " ", "q", "Right", " ", "Down", " ", "q", "Left">> }

SortKeys == {"[", "]", "Left", "Right"}

InitSort ==
    InitAfter(SortTables, StackWidths, {b \in Builds : b.overflow_checks}, SortPrefixes)

NextSort == \E code \in SortKeys : KeyEvent(code)

SpecSort == InitSort /\ [][NextSort]_vars

\* The step leaves the same viewer on top.
SameViewerStep ==
    pc = "running" /\ pc' = "running" /\ Len(app_stack') = Len(app_stack)

\* C9: no step of a viewer, a sort on any column in either direction
\* included, changes the UniqueCount the panel shows for a column.
C9_UniqueCountOrderInvariant ==
    [][SameViewerStep =>
        \A c \in (DOMAIN frame.agg_results) \cap (DOMAIN frame'.agg_results) :
            ("UniqueCount" \in DOMAIN frame.agg_results[c]
             /\ "UniqueCount" \in DOMAIN frame'.agg_results[c])
            => frame'.agg_results[c]["UniqueCount"] = frame.agg_results[c]["UniqueCount"]]_vars

\* A descending sort on column 1 has just run on three rows of which two hold
\* the same cell in column 0, and the panel shows UniqueCount 2 for column 0.
C9_Witness ==
    /\ pc = "running"
    /\ last_event = Key("]")
    /\ Top.selected_column = 1
    /\ Top.table.columns[2] = << <<"b">>, <<"a">>, <<"a">> >>
    /\ Top.table.columns[1] = << <<"9">>, <<"1", "0">>, <<"9">> >>
    /\ frame.agg_results[0]["UniqueCount"] = Some(<<"2">>)

\* The rows of a table, each the tuple of its cells, with their multiplicity.
RowBag(table) ==
    LET rows == [i \in 1..NumRows(table) |->
                    [c \in 1..Len(table.columns) |-> table.columns[c][i]]]
        distinct == {rows[i] : i \in 1..NumRows(table)}
    IN  [r \in distinct |-> Cardinality({i \in 1..NumRows(table) : rows[i] = r})]

\* C10: no step of a viewer, a sort on any column in either direction
\* included, changes the row count, the length of a column or the multiset
\* of rows of its table.
C10_SortPermutesRows ==
    [][SameViewerStep =>
        /\ NumRows(TopAfter.table) = NumRows(Top.table)
        /\ Len(TopAfter.table.columns) = Len(Top.table.columns)
        /\ \A c \in 1..Len(Top.table.columns) :
              Len(TopAfter.table.columns[c]) = NumRows(Top.table)
        /\ RowBag(TopAfter.table) = RowBag(Top.table)]_vars

\* An ascending sort on column 0 has just put the rows in numeric order, the
\* cells of column 1 still beside their rows.
C10_Witness ==
    /\ pc = "running"
    /\ last_event = Key("[")
    /\ Top.selected_column = 0
    /\ Top.table.columns[1] = << <<"9">>, <<"1", "0">>, <<"1", "0">> >>
    /\ Top.table.columns[2] = << <<"b">>, <<"a">>, <<"b">> >>

\* The step handles the key in a viewer that stays the top one.
KeyStep(code) == SameViewerStep /\ last_event' = Key(code)

\* C11: an ascending sort that follows an ascending sort on the same column
\* leaves the table as the first one left it, row for row in every column.
C11_AscendingTwice ==
    [][(KeyStep("[") /\ last_event = Key("["))
       => TopAfter.table = Top.table]_vars

\* An ascending sort has just run on a column whose three cells compare in a
\* cycle ("10" before "1a" before "9" before "10"), the tags beside them.
C11_Witness ==
    /\ pc = "running"
    /\ last_event = Key("[")
    /\ Top.selected_column = 0
    /\ Top.table.columns[1] = << <<"1", "0">>, <<"1", "a">>, <<"9">> >>
    /\ Top.table.columns[2] = << <<"b">>, <<"a">>, <<"a">> >>

\* The rows of a table, each the tuple of its cells.
Rows(table) ==
    [i \in 1..NumRows(table) |->
        [c \in 1..Len(table.columns) |-> table.columns[c][i]]]

Occurs(rows, r) == Cardinality({i \in DOMAIN rows : rows[i] = r})

IndexOf(rows, r) == CHOOSE i \in DOMAIN rows : rows[i] = r

\* Two rows that differ, occur once each and whose cells in column col
\* (1-based) compare Equal are in the same order after as before.
TiesKeepOrder(before, after, col) ==
    \A i, j \in DOMAIN before :
        (/\ i < j
         /\ compare_cells(before[i][col], before[j][col]) = "Equal"
         /\ before[i] # before[j]
         /\ Occurs(before, before[i]) = 1
         /\ Occurs(before, before[j]) = 1
         /\ Occurs(after, before[i]) = 1
         /\ Occurs(after, before[j]) = 1)
        => IndexOf(after, before[i]) < IndexOf(after, before[j])

\* C12 as stated: the rows after a descending sort are the rows an ascending
\* sort of the same table gives, read backwards.
C12_Original ==
    [][KeyStep("]")
       => LET asc == Rows(sort_table(Top, TRUE, build.sort).table)
          IN  Rows(TopAfter.table) = [i \in DOMAIN asc |-> asc[Len(asc) + 1 - i]]]_vars

\* C12, amended: after a descending sort no row's key is Less than the key of
\* the row after it, and rows whose keys compare Equal are in their original
\* relative order, the order an ascending sort gives them too, not its reverse.
C12_DescendingStable ==
    [][KeyStep("]")
       => LET col == Top.selected_column + 1
              after == Rows(TopAfter.table)
          IN  /\ \A i \in 1..(Len(after) - 1) :
                    compare_cells(after[i][col], after[i + 1][col]) # "Less"
              /\ TiesKeepOrder(Rows(Top.table), after, col)
              /\ TiesKeepOrder(Rows(Top.table),
                               Rows(sort_table(Top, TRUE, build.sort).table), col)]_vars

\* A descending sort on column 0 has just run: "10" is first, and the rows of
\* "9" and "09", which compare Equal, have b before a.
C12_Witness ==
    /\ pc = "running"
    /\ last_event = Key("]")
    /\ Top.selected_column = 0
    /\ Top.table.columns[1] = << <<"1", "0">>, <<"9">>, <<"0", "9">> >>
    /\ Top.table.columns[2] = << <<"a">>, <<"b">>, <<"a">> >>

\* C17: rows whose cells in the sort column compare Equal are, after an
\* ascending sort, in the order they had before it.
C17_AscendingStable ==
    [][KeyStep("[")
       => TiesKeepOrder(Rows(Top.table), Rows(TopAfter.table),
                        Top.selected_column + 1)]_vars

\* An ascending sort on column 0 has just run: the rows of "09" and "9", which
\* compare Equal, come before the row of "10", "09" first.
C17_Witness ==
    /\ pc = "running"
    /\ last_event = Key("[")
    /\ Top.selected_column = 0
    /\ Top.table.columns[1] = << <<"0", "9">>, <<"9">>, <<"1", "0">> >>
    /\ Top.table.columns[2] = << <<"b">>, <<"a">>, <<"a">> >>

\* C18: after an ascending sort on a column no cell of the column compares
\* Greater than a cell of a later row, for every pair of rows and also in
\* columns that mix numeric and non-numeric cells.
C18_Original ==
    [][KeyStep("[")
       => LET column == TopAfter.table.columns[Top.selected_column + 1]
          IN  \A i, j \in 1..Len(column) :
                  i < j => compare_cells(column[i], column[j]) # "Greater"]_vars

----------------------------------------------------------------------------
(* Exit paths: quit, detail views, panics and I/O errors *)

ExitKeys == {"Enter", "q", "Down", "Right", "["}

InitExit == InitAfter(StackTables \cup AggTables, StackWidths, Builds, {<<>>})

NextExit ==
    \/ \E code \in ExitKeys : KeyEvent(code)
    \/ PollTimeout
    \/ IoError

SpecExit == InitExit /\ [][NextExit]_vars

\* The program has ended: main has returned or a panic has unwound it.
Ended == pc # "running"

\* C13: whenever the program has ended, on the error paths as on the normal
\* one, raw mode is disabled and the alternate screen has been left.
C13_Original == Ended => (~raw_mode /\ ~alt_screen)

----------------------------------------------------------------------------
(* The grid cursor: moves and sorts on tables of every height *)

\* The tables of the grid runs have at most this many rows.
GridRows == 3

GridTables ==
    TablesOver(<< <<"a">>, <<"b">> >>, << { <<"9">>, <<"1", "0">> }, { <<"a">> } >>,
               GridRows)

\* Keys the root viewer has handled before the run: none; Count selected for
\* column 0; the same and column 0 toggled to Content.
GridPrefixes == { <<>>, <<" ", " ", "q">>, <<" ", " ", "q", "_">> }

GridKeys == {"Up", "Down", "Left", "Right", "[", "]", "g", "q"}

InitGrid ==
    InitAfter(GridTables, StackWidths, {b \in Builds : b.sort = "shift_left"},
              GridPrefixes)

NextGrid == \E code \in GridKeys : KeyEvent(code)

SpecGrid == InitGrid /\ [][NextGrid]_vars

\* Normal mode: no popup and no chord pending.
NormalMode(app) == ~app.show_aggregation_popup /\ ~app.awaiting_g_key

InGrid(app) ==
    /\ app.selected_row \in 0..(NumRows(app.table) - 1)
    /\ app.selected_column \in 0..(Len(app.table.headers) - 1)

\* The selection the claim gives for a direction key on a table of R rows and
\* C columns: one cell further, or the same cell at the edge.
Clamped(row, column, code, R, C) ==
    CASE code = "Up" -> <<IF row = 0 THEN row ELSE row - 1, column>>
      [] code = "Down" -> <<IF row = R - 1 THEN row ELSE row + 1, column>>
      [] code = "Left" -> <<row, IF column = 0 THEN column ELSE column - 1>>
      [] code = "Right" -> <<row, IF column = C - 1 THEN column ELSE column + 1>>

\* C14: on a table with rows and columns the selection is a cell of the
\* table in every state, and a direction key in Normal mode moves it one cell,
\* or leaves it at the edge it is on, without wrapping.
C14_GridClamps ==
    [][(pc = "running" /\ NumRows(Top.table) > 0 /\ Len(Top.table.headers) > 0)
       => /\ InGrid(Top)
          /\ pc' = "running" => InGrid(TopAfter)
          /\ (/\ NormalMode(Top)
              /\ last_event'.type = "key"
              /\ last_event'.code \in {"Up", "Down", "Left", "Right"})
             => /\ SameViewerStep
                /\ <<TopAfter.selected_row, TopAfter.selected_column>> =
                      Clamped(Top.selected_row, Top.selected_column,
                              last_event'.code,
                              NumRows(Top.table), Len(Top.table.headers))]_vars

\* Down has just been pressed on the last row of a three-row table, in the
\* last column, and the selection is still that cell.
C14_Witness ==
    /\ pc = "running"
    /\ last_event = Key("Down")
    /\ NumRows(Top.table) = 3
    /\ Top.selected_row = 2
    /\ Top.selected_column = 1
    /\ Top.horizontal_offset > 0

\* C16: a sort key in Normal mode sets selected_row to 0 and changes no other
\* field of the viewer but the table: selected_column, horizontal_offset,
\* column_widths, selected_aggregations, the popup flag and cursor and
\* awaiting_g_key are as before, and main_loop does not return.
C16_SortFrame ==
    [][(/\ pc = "running"
        /\ NormalMode(Top)
        /\ last_event'.type = "key"
        /\ last_event'.code \in {"[", "]"})
       => /\ SameViewerStep
          /\ TopAfter.selected_row = 0
          /\ TopAfter = [Top EXCEPT !.table = TopAfter.table, !.selected_row = 0]
          /\ TopAfter.table.headers = Top.table.headers]_vars

\* A descending sort has just run in column 1 of a viewer scrolled to the
\* right, with an aggregation selected: the row is 0, the rest is in place.
C16_Witness ==
    /\ pc = "running"
    /\ last_event = Key("]")
    /\ Top.selected_row = 0
    /\ Top.selected_column = 1
    /\ Top.horizontal_offset > 0
    /\ Top.selected_aggregations # EmptyMap
    /\ NumRows(Top.table) = 3

----------------------------------------------------------------------------
(* Column widths: '_' and g_ on tables with and without rows *)

WidthTables ==
    NavTables \cup TablesOver(<< <<"a">>, <<"b">>, <<"a", "b">> >>, << {}, {}, {} >>, 0)

InitWidth ==
    InitWith(WidthTables, StackWidths,
             {b \in Builds : b.overflow_checks /\ b.sort = "shift_left"})

NextWidth == \E code \in NavKeys : KeyEvent(code)

SpecWidth == InitWidth /\ [][NextWidth]_vars

\* The columns of a viewer, 0-based.
ColumnIndices(app) == 0..(Len(app.column_widths) - 1)

CellLengths(app, index) ==
    {StrLen(app.table.columns[index + 1][r]) : r \in 1..NumRows(app.table)}

\* C15 as stated: a Fixed(n) column is n wide and a Content column
\* max(10, longest cell) + 2, and every width is at least 1.
C15_Original ==
    \A k \in 1..Len(app_stack) : \A index \in ColumnIndices(app_stack[k]) :
        LET app == app_stack[k]
            policy == app.column_widths[index + 1]
            width == get_column_width(app, index)
        IN  /\ policy.kind = "Fixed" => width = policy.w
            /\ policy.kind = "Content" =>
                  width = Max({10} \cup CellLengths(app, index)) + 2
            /\ width >= 1

\* C15, amended: a Fixed(n) column is n wide; a Content column with rows is
\* two wider than its longest cell, whatever that length is; a Content column
\* without rows is 10 + 2 wide; every width is at least 1.
C15_ColumnWidth ==
    \A k \in 1..Len(app_stack) : \A index \in ColumnIndices(app_stack[k]) :
        LET app == app_stack[k]
            policy == app.column_widths[index + 1]
            width == get_column_width(app, index)
            lengths == CellLengths(app, index)
        IN  /\ policy.kind = "Fixed" => width = policy.w
            /\ (policy.kind = "Content" /\ lengths # {}) =>
                  /\ \A n \in lengths : width >= n + 2
                  /\ \E n \in lengths : width = n + 2
            /\ (policy.kind = "Content" /\ lengths = {}) => width = 10 + 2
            /\ width >= 1

\* Column 0, whose only cell is "9", is a Content column 3 wide, and Right has
\* scrolled the viewer to show column 2, which starts at 3 + 1 + 15 + 1.
C15_Witness ==
    /\ pc = "running"
    /\ NumRows(Top.table) = 1
    /\ Top.column_widths[1].kind = "Content"
    /\ get_column_width(Top, 0) = 3
    /\ Top.selected_column = 2
    /\ ColStart(Top, 2) = 20
    /\ Top.horizontal_offset = 13

----------------------------------------------------------------------------
(* The aggregation popup: cursor, confirm and quit *)

\* Keys pressed in any mode, and keys pressed only while the popup is open.
PopupKeys == {" ", "Up", "Down", "q", "Right"}
PopupOnlyKeys == {"Enter"}

InitPopup ==
    InitWith(StackTables, StackWidths,
             {b \in Builds : b.overflow_checks /\ b.sort = "shift_left"})

NextPopup ==
    \/ \E code \in PopupKeys : KeyEvent(code)
    \/ \E code \in PopupOnlyKeys :
          /\ pc = "running"
          /\ Top.show_aggregation_popup
          /\ KeyEvent(code)

SpecPopup == InitPopup /\ [][NextPopup]_vars

PopupOpen == pc = "running" /\ Top.show_aggregation_popup

\* C19: the popup cursor is the index of an aggregation function in every
\* state; Space in Normal mode opens the popup with the cursor at 0; in the
\* popup Up goes one up and from 0 to the last function, Down one down and
\* from the last function to 0, and neither changes the grid's selected_row
\* or selected_column.
C19_PopupCursor ==
    [][/\ pc = "running" =>
             Top.aggregation_state \in 0..(NumAggregationFunctions - 1)
       /\ pc' = "running" =>
             TopAfter.aggregation_state \in 0..(NumAggregationFunctions - 1)
       /\ (pc = "running" /\ NormalMode(Top) /\ last_event' = Key(" "))
          => /\ SameViewerStep
             /\ TopAfter.show_aggregation_popup
             /\ TopAfter.aggregation_state = 0
       /\ (PopupOpen /\ last_event' = Key("Up"))
          => /\ SameViewerStep
             /\ TopAfter.show_aggregation_popup
             /\ TopAfter.aggregation_state =
                   (IF Top.aggregation_state = 0 THEN NumAggregationFunctions - 1
                    ELSE Top.aggregation_state - 1)
             /\ TopAfter.selected_row = Top.selected_row
             /\ TopAfter.selected_column = Top.selected_column
       /\ (PopupOpen /\ last_event' = Key("Down"))
          => /\ SameViewerStep
             /\ TopAfter.show_aggregation_popup
             /\ TopAfter.aggregation_state =
                   (IF Top.aggregation_state = NumAggregationFunctions - 1 THEN 0
                    ELSE Top.aggregation_state + 1)
             /\ TopAfter.selected_row = Top.selected_row
             /\ TopAfter.selected_column = Top.selected_column]_vars

\* Up has just been pressed in the popup of a viewer whose grid selection is
\* row 1, column 1, and the cursor is on the last function.
C19_Witness ==
    /\ PopupOpen
    /\ last_event = Key("Up")
    /\ Top.aggregation_state = NumAggregationFunctions - 1
    /\ Top.selected_row = 1
    /\ Top.selected_column = 1
    /\ Top.selected_aggregations = EmptyMap

\* C20: Enter and 'q' in the open popup clear the popup flag and nothing
\* else: main_loop does not return, no viewer is pushed or popped, every
\* other field of the viewer and the viewers beneath are as before.
C20_PopupClose ==
    [][(PopupOpen /\ last_event'.type = "key" /\ last_event'.code \in {"Enter", "q"})
       => /\ pc' = "running"
          /\ last_ret' = "continue"
          /\ app_stack' = ReplaceTop(app_stack,
                                     [Top EXCEPT !.show_aggregation_popup = FALSE])]_vars

\* Enter has just closed the popup of the root viewer, which is still the
\* only one and keeps its selection and the aggregations chosen in the popup.
C20_Witness ==
    /\ pc = "running"
    /\ last_event = Key("Enter")
    /\ last_ret = "continue"
    /\ ~Top.show_aggregation_popup
    /\ Len(app_stack) = 1
    /\ Top.selected_row = 1
    /\ Top.selected_column = 1
    /\ Top.aggregation_state = 1
    /\ DOMAIN Top.selected_aggregations = {1}

----------------------------------------------------------------------------
(* Chord completions: g- and g_ *)

\* C21: '-' while a chord is pending empties the aggregation selection map,
\* the entries of columns other than the selected one included, clears
\* awaiting_g_key and changes nothing else of the viewer; the frame drawn next
\* has no aggregation panel, and a frame has the panel exactly when the map of
\* the viewer it shows is not empty.
C21_ClearAggregations ==
    [][/\ (ChordPending /\ last_event' = Key("-"))
          => /\ pc' = "running"
             /\ last_ret' = "continue"
             /\ app_stack' = ReplaceTop(app_stack,
                                 [Top EXCEPT !.selected_aggregations = EmptyMap,
                                             !.awaiting_g_key = FALSE])
             /\ ~frame'.show_aggregation_block
             /\ frame'.agg_results = EmptyMap
       /\ pc' = "running"
          => (frame'.show_aggregation_block <=> TopAfter.selected_aggregations # EmptyMap)]_vars

\* g- has just run in a viewer whose selected cell is row 1 of column 1 and
\* which is scrolled to the right: the map is empty and no panel is drawn.
C21_Witness ==
    /\ pc = "running"
    /\ last_event = Key("-")
    /\ Top.selected_aggregations = EmptyMap
    /\ ~Top.awaiting_g_key
    /\ Top.selected_column = 1
    /\ Top.selected_row = 1
    /\ Top.horizontal_offset > 0
    /\ ~frame.show_aggregation_block

\* The policy the claim gives a toggled column: Content for a Fixed one of
\* any width, Fixed(15) for a Content one.
Flipped(policy) == IF policy.kind = "Content" THEN Fixed(15) ELSE Content

\* C22: '_' in Normal mode flips the policy of the selected column and of no
\* other; '_' while a chord is pending flips the policy of every column, each
\* on its own; no other field of the viewer changes but awaiting_g_key; and
\* every policy a viewer holds is restored by flipping it twice.
C22_WidthToggle ==
    [][/\ (pc = "running" /\ NormalMode(Top) /\ last_event' = Key("_"))
          => /\ SameViewerStep
             /\ TopAfter =
                  [Top EXCEPT !.column_widths =
                      [i \in DOMAIN @ |-> IF i = Top.selected_column + 1
                                          THEN Flipped(@[i]) ELSE @[i]]]
       /\ (ChordPending /\ last_event' = Key("_"))
          => /\ SameViewerStep
             /\ TopAfter =
                  [Top EXCEPT !.column_widths = [i \in DOMAIN @ |-> Flipped(@[i])],
                              !.awaiting_g_key = FALSE]
       /\ pc' = "running"
          => \A i \in DOMAIN TopAfter.column_widths :
                Flipped(Flipped(TopAfter.column_widths[i])) = TopAfter.column_widths[i]]_vars

\* '_' has just been handled with column 1 selected, and the policies are a
\* mix: column 0 Content, column 1 Fixed(15).
C22_Witness ==
    /\ pc = "running"
    /\ last_event = Key("_")
    /\ Top.selected_column = 1
    /\ Top.column_widths = <<Content, Fixed(15)>>
    /\ ~Top.awaiting_g_key

----------------------------------------------------------------------------
(* The viewport after a resize *)

\* C23: when the width of the terminal changes between two frames and the
\* selected column, inside the viewport before, still fits the new viewport,
\* its span lies within [horizontalOffset, horizontalOffset+viewportWidth)
\* in the frame after the resize.
C23_Original ==
    [][(/\ pc = "running" /\ pc' = "running"
        /\ last_event'.type = "resize"
        /\ ColumnVisible(Top)
        /\ SelectedFits(TopAfter))
       => ColumnVisible(TopAfter)]_vars

----------------------------------------------------------------------------
(* Tables without rows *)

Degenerate(table) == NumRows(table) = 0 \/ Len(table.headers) = 0

\* C24: on a table without rows or without columns no key ends the program
\* in a panic, and selected_row and selected_column stay 0.
C24_Original ==
    (app_stack # <<>> /\ Degenerate(Top.table))
    => /\ pc # "panicked"
       /\ Top.selected_row = 0
       /\ Top.selected_column = 0

----------------------------------------------------------------------------
(* Input modes: Normal, chord pending, popup open *)

\* Keys pressed in any mode, and keys pressed only while the popup is open.
ModeKeys == {"g", " ", "Down", "-", "x", "q"}

InitMode ==
    InitWith(StackTables, StackWidths,
             {b \in Builds : b.overflow_checks /\ b.sort = "shift_left"})

NextMode ==
    \/ \E code \in ModeKeys : KeyEvent(code)
    \/ \E code \in PopupOnlyKeys :
          /\ pc = "running"
          /\ Top.show_aggregation_popup
          /\ KeyEvent(code)
    \/ OtherEvent
    \/ PollTimeout

SpecMode == InitMode /\ [][NextMode]_vars

Exclusive(app) == ~(app.show_aggregation_popup /\ app.awaiting_g_key)

\* C25: no viewer has show_aggregation_popup and awaiting_g_key both true,
\* before or after any key, other event or poll timeout; 'g' in the open
\* popup changes nothing, and Space while a chord is pending only clears
\* awaiting_g_key and does not open the popup.
C25_ModesExclusive ==
    [][/\ \A k \in 1..Len(app_stack) : Exclusive(app_stack[k])
       /\ \A k \in 1..Len(app_stack') : Exclusive(app_stack'[k])
       /\ (PopupOpen /\ last_event' = Key("g"))
          => (app_stack' = app_stack /\ pc' = "running")
       /\ (ChordPending /\ last_event' = Key(" "))
          => /\ pc' = "running"
             /\ app_stack' = ReplaceTop(app_stack,
                                        [Top EXCEPT !.awaiting_g_key = FALSE])]_vars

\* 'g' has just been pressed in the open popup of a viewer with aggregations
\* selected: the popup is open and no chord is pending.
C25_Witness ==
    /\ PopupOpen
    /\ last_event = Key("g")
    /\ ~Top.awaiting_g_key
    /\ Top.aggregation_state = 1
    /\ Top.selected_aggregations # EmptyMap

====
